---- MODULE Spec2Model ----
(***************************************************************************)
(* Model of src/main.py: a FastAPI blog-post CRUD API over one module-level *)
(* Python list, `posts`.                                                    *)
(*                                                                          *)
(* Spec      : requests are served one after another; every action is one   *)
(*             whole request (validation, handler body, response).          *)
(* ConcSpec  : the handlers run on worker threads (FastAPI runs `def`       *)
(*             endpoints in a thread pool) and interleave between the steps *)
(*             of their list scans and the pop / append / merge.            *)
(*                                                                          *)
(* Encoding.  A JSON object is a record whose DOMAIN is the set of keys the *)
(* client sent.  An Optional[T] value is a sequence of length <= 1: None is *)
(* <<>> and the value v is <<v>>.  A datetime is a natural number read off  *)
(* the server clock `now`.  Python list indices are 0-based; position k of  *)
(* the list is element k+1 of the sequence.                                 *)
(***************************************************************************)
EXTENDS Integers, Sequences, FiniteSets, TLC

VARIABLES
    posts,                 \* main.py:36  the module-level list
    Post_created_at,       \* main.py:50  class attribute default of Post.created_at
    PostUpdate_created_at, \* main.py:61  class attribute default of PostUpdate.created_at
    now,                   \* the server clock read by datetime.now()
    drawn,                 \* identifiers uuid4() has returned so far
    response,              \* the response to the latest request (sequential service)
    created,               \* history: the ids the creates assigned, in order
    sent,                  \* history: id -> the title, author and content its create
                           \*          sent, for the posts not updated or removed since
    removed,               \* history: ids of the records popped from the list
    th                     \* worker threads (concurrent service)

vars == <<posts, Post_created_at, PostUpdate_created_at, now, drawn,
          response, created, sent, removed, th>>

-----------------------------------------------------------------------------
(* Bounds *)

MaxIds == 2       \* how many identifiers uuid4() can hand out
MaxTime == 1      \* the clock runs from the import time to MaxTime
MaxThreads == 2   \* worker threads of the concurrent service

UuidPool == <<"u1", "u2", "u3", "u4", "u5", "u6">>
UUIDs == {UuidPool[n] : n \in 1..MaxIds}
Threads == 1..MaxThreads

-----------------------------------------------------------------------------
(* Values *)

None == <<>>
Some(v) == <<v>>

\* Path parameters a client may send: every identifier the server can hand
\* out, and one it never does.
PathIds == UUIDs \cup {"art-1"}

\* Bodies sent to POST /posts/create.
PostBodies ==
    { [title |-> "A", author |-> "B", content |-> "C"],
      [id |-> None, title |-> "A", author |-> "B", content |-> "C"],
      [id |-> Some("art-1"), title |-> "A2", author |-> "B", content |-> "C",
       created_at |-> 1, published_at |-> Some(2), published |-> TRUE],
      [id |-> None, author |-> "B", content |-> "C"] }

\* Bodies sent to PUT /posts/update/{post_id}.
PostUpdateBodies ==
    { [title |-> "A2", author |-> "B2", content |-> "C2"],
      [id |-> Some("art-1"), title |-> "A", author |-> "B", content |-> "C",
       created_at |-> 2, published |-> TRUE],
      [title |-> "A2", author |-> "B2"] }

NoBody == <<>>

-----------------------------------------------------------------------------
(* Pydantic models, main.py:45-61 *)

\* Fields without a default are required (Pydantic v2, which model_dump()
\* belongs to): id: Optional[str] has none, so the key must be present, and
\* may be null.
PostRequired == {"id", "title", "author", "content"}

PostUpdateRequired == {"title", "author", "content"}

PostValid(body) == PostRequired \subseteq DOMAIN body

PostUpdateValid(body) == PostUpdateRequired \subseteq DOMAIN body

\* The default of created_at is the value datetime.now() had when the class
\* body ran.
PostDefaultCreatedAt == Post_created_at

PostUpdateDefaultCreatedAt == PostUpdate_created_at

Post(body) ==
    [ id           |-> body.id,
      title        |-> body.title,
      author       |-> body.author,
      content      |-> body.content,
      created_at   |-> IF "created_at" \in DOMAIN body THEN body.created_at
                       ELSE PostDefaultCreatedAt,
      published_at |-> IF "published_at" \in DOMAIN body THEN body.published_at
                       ELSE None,
      published    |-> IF "published" \in DOMAIN body THEN body.published
                       ELSE FALSE ]

\* Variant: PostUpdate also declares `id: Optional[str] = None`, and the
\* handler dumps with exclude_none, so a client-sent id reaches the merge.
PostUpdateWithId(body) ==
    LET fields == [ title      |-> body.title,
                    author     |-> body.author,
                    content    |-> body.content,
                    created_at |-> IF "created_at" \in DOMAIN body THEN body.created_at
                                   ELSE PostUpdate_created_at ]
    IN  IF "id" \in DOMAIN body /\ body.id # None
        THEN fields @@ [id |-> body.id[1]]
        ELSE fields

\* Variant: PostUpdate also declares `published: bool = False`, as Post does.
PostUpdateWithPublished(body) ==
    [ title      |-> body.title,
      author     |-> body.author,
      content    |-> body.content,
      created_at |-> IF "created_at" \in DOMAIN body THEN body.created_at
                     ELSE PostUpdate_created_at,
      published  |-> IF "published" \in DOMAIN body THEN body.published ELSE FALSE ]

\* Keys that are not fields of the model are ignored.
PostUpdate(body) ==
    [ title      |-> body.title,
      author     |-> body.author,
      content    |-> body.content,
      created_at |-> IF "created_at" \in DOMAIN body THEN body.created_at
                     ELSE PostUpdateDefaultCreatedAt ]

-----------------------------------------------------------------------------
(* Python list and dict operations used by the handlers *)

\* dict.update(d): the keys of d overwrite, the other keys stay.
DictUpdate(post, d) ==
    [k \in DOMAIN post \cup DOMAIN d |-> IF k \in DOMAIN d THEN d[k] ELSE post[k]]

\* Variant: list.insert(0, x)
ListInsertFirst(list, x) == <<x>> \o list

\* list.append(x)
ListAppend(list, x) == Append(list, x)

\* Variant: list.pop() without the index removes the last element.
ListPopLast(list, index) == SubSeq(list, 1, Len(list) - 1)

\* list.pop(index), 0 <= index < len(list).
ListPop(list, index) ==
    [k \in 1..(Len(list) - 1) |-> IF k <= index THEN list[k] ELSE list[k + 1]]

\* The 0-based position at which a `for ... in posts` scan first meets a
\* record with the given id; Len(list) when it meets none.
RECURSIVE ScanFrom(_, _, _)
ScanFrom(list, post_id, index) ==
    IF index >= Len(list) THEN Len(list)
    ELSE IF list[index + 1].id = post_id THEN index
    ELSE ScanFrom(list, post_id, index + 1)

\* Variant: the comparison is dropped, the scan stops at the first record.
ScanFirst(list, post_id) == IF Len(list) > 0 THEN 0 ELSE Len(list)

Scan(list, post_id) == ScanFrom(list, post_id, 0)

\* post.id = str(uuid()) : main.py:128
AssignId(post, u) == [post EXCEPT !.id = u]

\* A response, with the operation and the path parameter it answers.
Response(op, post_id, status, body) ==
    [op |-> op, post_id |-> post_id, status |-> status, body |-> body]

\* Variant: the handler returns the message instead of raising.
NotFoundReturned(op, post_id) == Response(op, post_id, 200, [message |-> "Post no encontrado"])

\* raise HTTPException(status_code=404, detail="Post no encontrado")
NotFound(op, post_id) == Response(op, post_id, 404, [detail |-> "Post no encontrado"])

\* FastAPI's answer to a body the model rejects.
Unprocessable(op, post_id) == Response(op, post_id, 422, [detail |-> "validation error"])

Ok(op, post_id, body) == Response(op, post_id, 200, body)

\* History bookkeeping: the record with this id is no longer as created.
Forget(f, id) == [x \in DOMAIN f \ {id} |-> f[x]]

\* `for post in posts` meets a record with this id somewhere in the list.
InStore(post_id) == \E i \in 1..Len(posts) : posts[i].id = post_id

\* A worker thread that is not inside a handler.  op, post_id, status and
\* result are those of the request it served last; before and after tell
\* whether post_id was in the store when that handler began and ended.
Idle(op, post_id, status, result, before, after) ==
    [pc |-> "idle", op |-> op, post_id |-> post_id, body |-> NoBody,
     it |-> 0, index |-> 0, status |-> status, result |-> result,
     before |-> before, after |-> after]

\* A worker thread entering the `for` loop of a handler: `it` is the position
\* of the list iterator, `index` the counter of enumerate().
Scanning(op, post_id, body) ==
    [pc |-> "scan", op |-> op, post_id |-> post_id, body |-> body,
     it |-> 0, index |-> 0, status |-> 0, result |-> "",
     before |-> InStore(post_id), after |-> FALSE]

-----------------------------------------------------------------------------
(* Initial state: the module has just been imported. *)

Init ==
    /\ now = 0
    /\ posts = <<>>
    /\ Post_created_at = now
    /\ PostUpdate_created_at = now
    /\ drawn = {}
    /\ response = Ok("none", "", NoBody)
    /\ created = <<>>
    /\ sent = <<>>
    /\ removed = {}
    /\ th = [t \in Threads |-> Idle("none", "", 0, "", FALSE, FALSE)]

Tick ==
    /\ now < MaxTime
    /\ now' = now + 1
    /\ UNCHANGED <<posts, Post_created_at, PostUpdate_created_at, drawn,
                   response, created, sent, removed, th>>

-----------------------------------------------------------------------------
(* Sequential service: one action per request. *)

\* GET / : main.py:73-81
read_root ==
    /\ response' = Ok("root", "", [Welcome |-> "Bienvenido a mi Clase de FastAPI"])
    /\ UNCHANGED <<posts, Post_created_at, PostUpdate_created_at, now, drawn,
                   created, sent, removed, th>>

\* GET /posts : main.py:86-97
get_posts ==
    /\ response' = Ok("list", "", posts)
    /\ UNCHANGED <<posts, Post_created_at, PostUpdate_created_at, now, drawn,
                   created, sent, removed, th>>

\* POST /posts/create with a body the Post model rejects: 422, handler not run.
create_post_invalid(body) ==
    /\ ~PostValid(body)
    /\ response' = Unprocessable("create", "")
    /\ UNCHANGED <<posts, Post_created_at, PostUpdate_created_at, now, drawn,
                   created, sent, removed, th>>

\* POST /posts/create : main.py:102-133
create_post(body) ==
    /\ PostValid(body)
    /\ \E u \in UUIDs \ drawn :
        LET post == AssignId(Post(body), u) IN
        /\ drawn' = drawn \cup {u}
        /\ posts' = ListAppend(posts, post)
        /\ created' = Append(created, u)
        /\ sent' = sent @@ (u :> [title |-> body.title, author |-> body.author,
                                  content |-> body.content])
    /\ response' = Ok("create", "", [message |-> "Post creado satisfactoriamente"])
    /\ UNCHANGED <<Post_created_at, PostUpdate_created_at, now, removed, th>>

\* GET /posts/{post_id} : main.py:138-162
get_post_by_id(post_id) ==
    LET index == Scan(posts, post_id) IN
    /\ response' = IF index < Len(posts) THEN Ok("get", post_id, posts[index + 1])
                    ELSE NotFound("get", post_id)
    /\ UNCHANGED <<posts, Post_created_at, PostUpdate_created_at, now, drawn,
                   created, sent, removed, th>>

\* DELETE /posts/delete/{post_id} : main.py:167-192
delete_post(post_id) ==
    LET index == Scan(posts, post_id) IN
    /\ IF index < Len(posts)
       THEN /\ posts' = ListPop(posts, index)
            /\ removed' = removed \cup {posts[index + 1].id}
            /\ sent' = Forget(sent, posts[index + 1].id)
            /\ response' = Ok("delete", post_id, [message |-> "Post eliminado correctamente"])
       ELSE /\ response' = NotFound("delete", post_id)
            /\ UNCHANGED <<posts, removed, sent>>
    /\ UNCHANGED <<Post_created_at, PostUpdate_created_at, now, drawn, created, th>>

\* PUT /posts/update/{post_id} with a body the PostUpdate model rejects.
update_post_invalid(post_id, body) ==
    /\ ~PostUpdateValid(body)
    /\ response' = Unprocessable("update", post_id)
    /\ UNCHANGED <<posts, Post_created_at, PostUpdate_created_at, now, drawn,
                   created, sent, removed, th>>

\* PUT /posts/update/{post_id} : main.py:197-231
update_post(post_id, body) ==
    LET index == Scan(posts, post_id) IN
    /\ PostUpdateValid(body)
    /\ IF index < Len(posts)
       THEN /\ posts' = [posts EXCEPT ![index + 1] = DictUpdate(@, PostUpdate(body))]
            /\ sent' = Forget(sent, posts[index + 1].id)
            /\ response' = Ok("update", post_id, [message |-> "Post actualizado correctamente"])
       ELSE /\ response' = NotFound("update", post_id)
            /\ UNCHANGED <<posts, sent>>
    /\ UNCHANGED <<Post_created_at, PostUpdate_created_at, now, drawn,
                   created, removed, th>>

Next ==
    \/ Tick
    \/ read_root
    \/ get_posts
    \/ \E body \in PostBodies : create_post_invalid(body)
    \/ \E body \in PostBodies : create_post(body)
    \/ \E post_id \in PathIds : get_post_by_id(post_id)
    \/ \E post_id \in PathIds : delete_post(post_id)
    \/ \E post_id \in PathIds, body \in PostUpdateBodies : update_post_invalid(post_id, body)
    \/ \E post_id \in PathIds, body \in PostUpdateBodies : update_post(post_id, body)

Spec == Init /\ [][Next]_vars

-----------------------------------------------------------------------------
(* Concurrent service.  FastAPI runs each `def` endpoint on a worker thread, *)
(* and a thread may be preempted between any two steps that touch `posts`.   *)
(* A step is one advance of the list iterator (together with the comparison  *)
(* of the fetched record's id, which reads nothing another thread writes),   *)
(* one list.pop, one list.append, or one dict.update.  The request body is   *)
(* validated before the handler is entered.  read_root and get_posts write   *)
(* nothing and have no loop; they add no step here.                          *)

Shared == <<Post_created_at, PostUpdate_created_at, now, response, created,
            sent, removed>>

\* One advance of `for post in posts` by thread t: on a record with the
\* wanted id the thread goes on to `found`, on another it stays in the loop,
\* and at the end of the list it leaves the loop and raises 404.
ForStep(t, found) ==
    LET me == th[t] IN
    IF me.it < Len(posts)
    THEN IF posts[me.it + 1].id = me.post_id
         THEN found
         ELSE [me EXCEPT !.it = me.it + 1]
    ELSE Idle(me.op, me.post_id, 404, "", me.before, InStore(me.post_id))

\* POST /posts/create : main.py:128-133 (the append is the one shared step)
create_post_thread(t, body) ==
    /\ th[t].pc = "idle"
    /\ PostValid(body)
    /\ \E u \in UUIDs \ drawn :
        /\ drawn' = drawn \cup {u}
        /\ posts' = ListAppend(posts, AssignId(Post(body), u))
    /\ th' = [th EXCEPT ![t] = Idle("create", "", 200, "", FALSE, FALSE)]
    /\ UNCHANGED Shared

\* GET /posts/{post_id} : main.py:138-139
get_post_by_id_begin(t, post_id) ==
    /\ th[t].pc = "idle"
    /\ th' = [th EXCEPT ![t] = Scanning("get", post_id, NoBody)]
    /\ UNCHANGED <<posts, drawn, Shared>>

\* main.py:157-162
get_post_by_id_step(t) ==
    /\ th[t].pc = "scan"
    /\ th[t].op = "get"
    /\ th' = [th EXCEPT ![t] =
                ForStep(t, Idle("get", th[t].post_id, 200, posts[th[t].it + 1].id,
                                th[t].before, TRUE))]
    /\ UNCHANGED <<posts, drawn, Shared>>

\* DELETE /posts/delete/{post_id} : main.py:167-168
delete_post_begin(t, post_id) ==
    /\ th[t].pc = "idle"
    /\ th' = [th EXCEPT ![t] = Scanning("delete", post_id, NoBody)]
    /\ UNCHANGED <<posts, drawn, Shared>>

\* main.py:185-186, 192 : enumerate() counts in step with the list iterator.
delete_post_step(t) ==
    /\ th[t].pc = "scan"
    /\ th[t].op = "delete"
    /\ th' = [th EXCEPT ![t] =
                ForStep(t, [th[t] EXCEPT !.pc = "pop", !.index = th[t].it,
                                         !.it = th[t].it + 1])]
    /\ UNCHANGED <<posts, drawn, Shared>>

\* main.py:188-189 : posts.pop(index) on the list as it is now; an index past
\* its end raises IndexError, which FastAPI answers with 500.
delete_post_pop(t) ==
    LET me == th[t] IN
    /\ me.pc = "pop"
    /\ IF me.index < Len(posts)
       THEN /\ posts' = ListPop(posts, me.index)
            /\ th' = [th EXCEPT ![t] =
                        Idle("delete", me.post_id, 200, posts[me.index + 1].id,
                             me.before, \E i \in 1..Len(posts') : posts'[i].id = me.post_id)]
       ELSE /\ posts' = posts
            /\ th' = [th EXCEPT ![t] =
                        Idle("delete", me.post_id, 500, "", me.before, InStore(me.post_id))]
    /\ UNCHANGED <<drawn, Shared>>

\* PUT /posts/update/{post_id} : main.py:197-198
update_post_begin(t, post_id, body) ==
    /\ th[t].pc = "idle"
    /\ PostUpdateValid(body)
    /\ th' = [th EXCEPT ![t] = Scanning("update", post_id, body)]
    /\ UNCHANGED <<posts, drawn, Shared>>

\* main.py:223-224, 231
update_post_step(t) ==
    /\ th[t].pc = "scan"
    /\ th[t].op = "update"
    /\ th' = [th EXCEPT ![t] =
                ForStep(t, [th[t] EXCEPT !.pc = "merge", !.it = th[t].it + 1])]
    /\ UNCHANGED <<posts, drawn, Shared>>

\* main.py:227-228 : post.update(...) changes the dict the loop fetched.  Ids
\* are never reused, so that dict is the record with this id if the list
\* still holds it; if another thread has popped it, the list is unaffected.
update_post_merge(t) ==
    LET me == th[t] IN
    /\ me.pc = "merge"
    /\ posts' = [i \in 1..Len(posts) |->
                    IF posts[i].id = me.post_id
                    THEN DictUpdate(posts[i], PostUpdate(me.body))
                    ELSE posts[i]]
    /\ th' = [th EXCEPT ![t] =
                Idle("update", me.post_id, 200, me.post_id, me.before, InStore(me.post_id))]
    /\ UNCHANGED <<drawn, Shared>>

ConcNext ==
    \E t \in Threads :
        \/ \E body \in PostBodies : create_post_thread(t, body)
        \/ \E post_id \in PathIds : get_post_by_id_begin(t, post_id)
        \/ get_post_by_id_step(t)
        \/ \E post_id \in PathIds : delete_post_begin(t, post_id)
        \/ delete_post_step(t)
        \/ delete_post_pop(t)
        \/ \E post_id \in PathIds, body \in PostUpdateBodies : update_post_begin(t, post_id, body)
        \/ update_post_step(t)
        \/ update_post_merge(t)

ConcSpec == Init /\ [][ConcNext]_vars

-----------------------------------------------------------------------------
(* Properties of the sequential service *)

StoreIds == [i \in 1..Len(posts) |-> posts[i].id]

PositionOf(post_id) == CHOOSE i \in 1..Len(posts) : posts[i].id = post_id

\* The ids of the posts created and not removed, in the order of creation.
LiveIds ==
    LET Live(id) == id \notin removed
    IN  SelectSeq(created, Live)

\* The created_at a validated PostUpdate payload carries.
PayloadCreatedAt(body) ==
    IF "created_at" \in DOMAIN body THEN body.created_at ELSE PostUpdate_created_at

\* C1: after any sequence of create, update and delete requests, every post
\* in the store has a non-empty id, one that uuid4() drew, and no two posts
\* in the store have the same id.
C1_UniqueNonEmptyIds ==
    \A i \in 1..Len(posts) :
        /\ posts[i].id # ""
        /\ posts[i].id \in drawn
        /\ \A j \in 1..Len(posts) : posts[j].id = posts[i].id => j = i

C1_Witness == Len(posts) = 2 /\ \E i \in 1..Len(posts) : posts[i].id \notin DOMAIN sent

\* C2: a GET /posts/{id} for an id a create assigned, whose post has not been
\* updated or deleted since, returns 200 and a record with the title, author
\* and content that create request sent.
C2_GetReturnsWhatWasCreated ==
    \A id \in DOMAIN sent :
        (response.op = "get" /\ response.post_id = id)
        => /\ response.status = 200
           /\ response.body.id = id
           /\ response.body.title = sent[id].title
           /\ response.body.author = sent[id].author
           /\ response.body.content = sent[id].content

C2_Witness ==
    /\ response.op = "get"
    /\ response.status = 200
    /\ Len(created) = 2
    /\ Cardinality(DOMAIN sent) = 1
    /\ response.post_id \in DOMAIN sent

C4_UpdateFrame ==
    [][ response'.op = "update" =>
        \A post_id \in PathIds, body \in PostUpdateBodies :
          (InStore(post_id) /\ update_post(post_id, body)) =>
            LET i == PositionOf(post_id) IN
            /\ Len(posts') = Len(posts)
            /\ \A j \in 1..Len(posts) : j # i => posts'[j] = posts[j]
            /\ DOMAIN posts'[i] = DOMAIN posts[i]
            /\ posts'[i].id = posts[i].id
            /\ posts'[i].published = posts[i].published
            /\ posts'[i].published_at = posts[i].published_at
            /\ posts'[i].title = body.title
            /\ posts'[i].author = body.author
            /\ posts'[i].content = body.content
            /\ posts'[i].created_at = PayloadCreatedAt(body)
      ]_vars

C4_Witness ==
    /\ response.op = "update"
    /\ response.status = 200
    /\ Len(posts) = 2
    /\ \E i \in 1..Len(posts) :
          /\ posts[i].id = response.post_id
          /\ posts[i].published
          /\ posts[i].title = "A"

\* C5: a delete on an id that is in the store removes exactly the record
\* with that id (the others remain, in order), and every later
\* GET /posts/{id} for that id answers 404.
C5_DeleteRemovesOne ==
    [][ /\ response'.op = "delete" =>
           \A post_id \in PathIds :
              (InStore(post_id) /\ delete_post(post_id)) =>
                LET i == PositionOf(post_id) IN
                /\ Len(posts') = Len(posts) - 1
                /\ \A j \in 1..Len(posts') :
                      posts'[j] = IF j < i THEN posts[j] ELSE posts[j + 1]
                /\ \A j \in 1..Len(posts') : posts'[j].id # post_id
        /\ response'.op = "get" =>
           \A post_id \in PathIds :
              (post_id \in removed /\ get_post_by_id(post_id)) =>
                /\ response'.status = 404
                /\ response'.body.detail = "Post no encontrado"
      ]_vars

C5_Witness ==
    /\ response.op = "get"
    /\ response.status = 404
    /\ response.post_id \in removed
    /\ Len(posts) >= 1

\* C6 as stated: a get-by-id, update or delete request whose id matches no
\* post in the store answers 404 "Post no encontrado" and leaves the store
\* as it was.
C6_UnknownIdIs404 ==
    [][ \A post_id \in PathIds :
          ( /\ ~InStore(post_id)
            /\ \/ response'.op = "get" /\ get_post_by_id(post_id)
               \/ response'.op = "delete" /\ delete_post(post_id)
               \/ /\ response'.op = "update"
                  /\ \E body \in PostUpdateBodies :
                        update_post(post_id, body) \/ update_post_invalid(post_id, body) )
          => /\ response'.status = 404
             /\ response'.body.detail = "Post no encontrado"
             /\ posts' = posts
      ]_vars

\* C6 amended: a get-by-id or delete request, or an update request whose
\* body the PostUpdate model accepts, whose id matches no post in the store
\* answers 404 "Post no encontrado" and leaves the store as it was; an update
\* whose body the model rejects answers 422 and leaves the store as it was.
C6_UnknownIdIs404_ValidBody ==
    [][ \A post_id \in PathIds :
          /\ ( /\ ~InStore(post_id)
               /\ \/ response'.op = "get" /\ get_post_by_id(post_id)
                  \/ response'.op = "delete" /\ delete_post(post_id)
                  \/ /\ response'.op = "update"
                     /\ \E body \in PostUpdateBodies : update_post(post_id, body) )
             => /\ response'.status = 404
                /\ response'.body.detail = "Post no encontrado"
                /\ posts' = posts
          /\ ( /\ response'.op = "update"
               /\ \E body \in PostUpdateBodies : update_post_invalid(post_id, body) )
             => /\ response'.status = 422
                /\ posts' = posts
      ]_vars

C6_Witness ==
    /\ response.op = "update"
    /\ response.status = 404
    /\ Len(posts) >= 1
    /\ ~InStore(response.post_id)

\* C7: a create whose body carries title, author and content is accepted and
\* inserted whether the id key is absent or present, and the id stored is the
\* one the server generated.
C7_CreateIgnoresId ==
    [][ \A body \in PostBodies :
          ( /\ {"title", "author", "content"} \subseteq DOMAIN body
            /\ response'.op = "create"
            /\ create_post(body) \/ create_post_invalid(body) )
          => /\ response'.status = 200
             /\ Len(posts') = Len(posts) + 1
             /\ posts'[Len(posts')].id \in drawn' \ drawn
      ]_vars

\* C8: a create that omits created_at stores the server's current time at
\* that request as the post's created_at.
C8_CreatedAtIsRequestTime ==
    [][ \A body \in PostBodies :
          ("created_at" \notin DOMAIN body /\ response'.op = "create" /\ create_post(body))
          => posts'[Len(posts')].created_at = now
      ]_vars

-----------------------------------------------------------------------------
(* Properties of the concurrent service *)

\* C9: a delete for id X that has answered never removed a post whose id is
\* not X, and never failed with anything other than 404.
C9_DeleteIsAtomic ==
    \A t \in Threads :
        (th[t].pc = "idle" /\ th[t].op = "delete") =>
            /\ th[t].status \in {200, 404}
            /\ th[t].status = 200 => th[t].result = th[t].post_id

\* C10: a get for an id that was in the store when the get began and when it
\* ended (so, ids never being reused, all the while) answers 200 with that
\* post.
C10_GetFindsStablePost ==
    \A t \in Threads :
        (th[t].pc = "idle" /\ th[t].op = "get" /\ th[t].before /\ th[t].after) =>
            /\ th[t].status = 200
            /\ th[t].result = th[t].post_id

====
